---- MODULE Spec2Model ----
(***************************************************************************)
(* A model of the recursion layer of sp1: the constant-memory chip         *)
(* (chips/mem/constant.rs), the machine composition and height fold        *)
(* (machine.rs) and the interaction builder (builder.rs).                  *)
(***************************************************************************)
EXTENDS Integers, Sequences, FiniteSets, TLC

VARIABLES
    program,    \* RecursionProgram.instructions
    shape,      \* RecursionProgram.shape entry of the MemoryConst chip: None or Some(log2 rows)
    pc,         \* the position of the harness that drives the chip or the machine
    prep,       \* outcome of generate_preprocessed_trace
    record,     \* the shard's ExecutionRecord
    trace,      \* outcome of generate_trace
    output,     \* the output ExecutionRecord handed to the chip by mutable reference
    sends,      \* interactions the builder was asked to send
    receives,   \* interactions the builder was asked to receive
    calls,      \* the calls of the builder's Memory helpers, in order
    profile,    \* the constructor the machine was built with
    machine,    \* the chips of the StarkMachine that was constructed
    counters,   \* RecursionAirHeights accumulated by heights()
    heights,    \* the Vec<(String, usize)> heights() returned
    fixedShape, \* the RecursionShape shrink_shape() returned: (name, log2 rows) pairs
    verify,     \* whether the guest is built with the "verify" feature
    pos,        \* where the guest's __start stands
    hasher,     \* the static PUBLIC_VALUES_HASHER
    digest,     \* the static DEFERRED_PROOFS_DIGEST
    ctx,        \* the SyscallContext of the executor: next pc and exit code
    ret,        \* what the syscalls executed so far returned, in order
    halt_args,  \* the arguments of the halt syscall that was executed, if any
    halter      \* who called the halt syscall: "none", "guest" (main) or "start"

chipVars == << shape, prep, record, trace, output >>

builderVars == << sends, receives, calls >>

machineVars == << profile, machine, counters, heights, fixedShape >>

haltVars == << verify, pos, hasher, digest, ctx, ret, halt_args, halter >>

vars == << program, pc, chipVars, builderVars, machineVars, haltVars >>

----------------------------------------------------------------------------
(* Bounds of the model and constants of the program *)

MaxLen == 5
MaxInteractLen == 4
MaxHeightsLen == 3
MaxCalls == 2

NUM_CONST_MEM_ENTRIES_PER_ROW == 2
D == 4
BabyBearP == 2013265921
PUB_VALUES_LOG_HEIGHT == 4

None == << >>
Some(x) == << x >>

----------------------------------------------------------------------------
(* The field F: multiplicities, addresses and values are field elements *)

FNeg(a) == IF a = 0 THEN 0 ELSE BabyBearP - a

FAdd(a, b) == IF a >= BabyBearP - b THEN a - (BabyBearP - b) ELSE a + b

FZero == 0

ZeroBlock == [i \in 1..D |-> FZero]

\* Block::from(v): the value in the first limb, zero elsewhere
BlockFrom(v) == [i \in 1..D |-> IF i = 1 THEN v ELSE FZero]

----------------------------------------------------------------------------
(* Instructions *)

MemInstr(kind, mult, addr, val) ==
    [op |-> "Mem", kind |-> kind, mult |-> mult, addrs |-> addr,
     vals |-> BlockFrom(val), outs |-> 0]

OtherInstr(op, n) ==
    [op |-> op, kind |-> "NA", mult |-> 0, addrs |-> 0, vals |-> ZeroBlock, outs |-> n]

IsMem(instr) == instr.op = "Mem"

----------------------------------------------------------------------------
(* sp1_core_machine::utils::pad_rows_fixed *)

RECURSIVE Pow2(_)
Pow2(k) == IF k = 0 THEN 1 ELSE 2 * Pow2(k - 1)

RECURSIVE PowerOfTwoFrom(_, _)
PowerOfTwoFrom(p, n) == IF p >= n THEN p ELSE PowerOfTwoFrom(2 * p, n)

\* the number of rows after padding, or -1 when the fixed shape is exceeded
PaddedRows(n, fixed) ==
    IF fixed = None
    THEN PowerOfTwoFrom(1, n)
    ELSE IF n > Pow2(fixed[1]) THEN -1 ELSE Pow2(fixed[1])

RECURSIVE Repeat(_, _)
Repeat(x, n) == IF n = 0 THEN << >> ELSE << x >> \o Repeat(x, n - 1)

\* rows resized to the padded height with copies of the zero row; a panic
\* when the fixed shape is too small
PadRowsFixed(rows, zeroRow, fixed) ==
    LET h == PaddedRows(Len(rows), fixed) IN
    IF h < 0
    THEN [status |-> "panic", rows |-> << >>]
    ELSE [status |-> "ok", rows |-> rows \o Repeat(zeroRow, h - Len(rows))]

----------------------------------------------------------------------------
(* MemoryChip: the preprocessed trace *)

NUM_MEM_INIT_COLS == 1

\* size_of MemoryPreprocessedCols<u8>: per entry a Block and (addr, mult)
NUM_MEM_PREPROCESSED_INIT_COLS == NUM_CONST_MEM_ENTRIES_PER_ROW * (D + 2)

\* a variant of the closure that keeps the multiplicity of a Read
UnsignedMult(instr) == instr.mult

\* the filter_map closure: a Mem instruction gives (vals, {addr, mult}) with the
\* multiplicity negated for a Read
SignedMult(instr) ==
    IF instr.kind = "Read" THEN FNeg(instr.mult) ELSE instr.mult

AccessOf(instr) ==
    [value |-> instr.vals, addr |-> instr.addrs, mult |-> SignedMult(instr)]

RECURSIVE MemAccesses(_)
MemAccesses(instrs) ==
    IF instrs = << >> THEN << >>
    ELSE IF IsMem(Head(instrs))
         THEN << AccessOf(Head(instrs)) >> \o MemAccesses(Tail(instrs))
         ELSE MemAccesses(Tail(instrs))

\* a variant of the chunking that drops a trailing incomplete group (chunks_exact)
RECURSIVE ChunksExact(_, _)
ChunksExact(s, k) ==
    IF Len(s) < k THEN << >>
    ELSE << SubSeq(s, 1, k) >> \o ChunksExact(SubSeq(s, k + 1, Len(s)), k)

\* itertools chunks(k): consecutive groups of k, the last one possibly shorter
RECURSIVE Chunks(_, _)
Chunks(s, k) ==
    IF s = << >> THEN << >>
    ELSE IF Len(s) <= k THEN << s >>
         ELSE << SubSeq(s, 1, k) >> \o Chunks(SubSeq(s, k + 1, Len(s)), k)

\* a variant of the cell layout with the multiplicity before the address
CellColsSwapped(access) == access.value \o << access.mult, access.addr >>

\* the columns of one (Block, MemoryAccessCols) cell, in struct order
CellCols(access) == access.value \o << access.addr, access.mult >>

ZeroCell == [value |-> ZeroBlock, addr |-> FZero, mult |-> FZero]

\* the map closure: a zero row whose first cells are overwritten by the chunk
RECURSIVE RowOfChunk(_, _)
RowOfChunk(chunk, cell) ==
    IF cell > NUM_CONST_MEM_ENTRIES_PER_ROW THEN << >>
    ELSE CellCols(IF cell <= Len(chunk) THEN chunk[cell] ELSE ZeroCell)
         \o RowOfChunk(chunk, cell + 1)

PrepRows(instrs) ==
    LET chunks == Chunks(MemAccesses(instrs), NUM_CONST_MEM_ENTRIES_PER_ROW) IN
    [i \in 1..Len(chunks) |-> RowOfChunk(chunks[i], 1)]

ZeroRow(width) == [i \in 1..width |-> FZero]

\* RowMajorMatrix::new(values, width) of the padded rows
Matrix(padded, width) ==
    [status |-> padded.status, width |-> width, rows |-> padded.rows]

GeneratePreprocessedTrace(instrs, fixed) ==
    Matrix(PadRowsFixed(PrepRows(instrs),
                        ZeroRow(NUM_MEM_PREPROCESSED_INIT_COLS), fixed),
           NUM_MEM_PREPROCESSED_INIT_COLS)

----------------------------------------------------------------------------
(* MemoryChip: the runtime trace *)

\* a variant of the row count without the checked_sub(1)
NumRowsUnchecked(count) == (count \div NUM_CONST_MEM_ENTRIES_PER_ROW) + 1

\* mem_const_count.checked_sub(1).map(|x| x / K + 1).unwrap_or_default()
NumRows(count) ==
    IF count >= 1 THEN ((count - 1) \div NUM_CONST_MEM_ENTRIES_PER_ROW) + 1 ELSE 0

\* a variant of generate_trace that pads without the record's fixed shape
GenerateTraceUnfixed(input) ==
    Matrix(PadRowsFixed(Repeat(ZeroRow(NUM_MEM_INIT_COLS), NumRows(input.mem_const_count)),
                        ZeroRow(NUM_MEM_INIT_COLS), None),
           NUM_MEM_INIT_COLS)

\* a variant of generate_trace that counts the rows from mem_var_events
GenerateTraceFromVarEvents(input) ==
    Matrix(PadRowsFixed(Repeat(ZeroRow(NUM_MEM_INIT_COLS), NumRows(input.mem_var_events)),
                        ZeroRow(NUM_MEM_INIT_COLS), input.shape),
           NUM_MEM_INIT_COLS)

\* generate_trace(&self, input: &ExecutionRecord, _: &mut ExecutionRecord)
GenerateTrace(input) ==
    Matrix(PadRowsFixed(Repeat(ZeroRow(NUM_MEM_INIT_COLS), NumRows(input.mem_const_count)),
                        ZeroRow(NUM_MEM_INIT_COLS), input.shape),
           NUM_MEM_INIT_COLS)

Height(t) == Len(t.rows)

NoTrace == [status |-> "none", width |-> 0, rows |-> << >>]

\* ExecutionRecord::default()
DefaultRecord == [mem_const_count |-> 0, mem_var_events |-> 0, shape |-> None]

\* generate_dependencies(&self, _: &Self::Record, _: &mut Self::Record) has an
\* empty body ("This is a no-op."): the output record it returns is the one given
GenerateDependencies(input, out) == out

\* included(&self, _record: &Self::Record) -> bool { true }
Included(rec) == TRUE

----------------------------------------------------------------------------
(* RecursionAirBuilder: the Memory-channel interactions *)

\* a variant of the interaction whose key is the address alone
MemoryInteractionNoValue(addr, val, mult) ==
    [values |-> << addr >>, multiplicity |-> mult, kind |-> "Memory"]

\* AirInteraction::new(values, multiplicity, InteractionKind::Memory), with
\* values = once(addr.0).chain(val)
MemoryInteraction(addr, val, mult) ==
    [values |-> << addr >> \o val, multiplicity |-> mult, kind |-> "Memory"]

\* a variant of the padding that fills every limb with the value
PaddedValueFilled(val) == [i \in 1..D |-> val]

\* core::array::from_fn(|_| zero) with padded_value[0] = val
PaddedValue(val) == [i \in 1..D |-> IF i = 1 THEN val ELSE FZero]

SendBlockInteraction(addr, val, mult) == MemoryInteraction(addr, val, mult)

SendSingleInteraction(addr, val, mult) ==
    SendBlockInteraction(addr, PaddedValue(val), mult)

ReceiveBlockInteraction(addr, val, mult) == MemoryInteraction(addr, val, mult)

ReceiveSingleInteraction(addr, val, mult) ==
    ReceiveBlockInteraction(addr, PaddedValue(val), mult)

----------------------------------------------------------------------------
(* MemoryChip: eval *)

\* the borrow of a preprocessed row as MemoryPreprocessedCols: cell j
CellAt(row, j) ==
    LET off == (j - 1) * (D + 2) IN
    [value |-> SubSeq(row, off + 1, off + D),
     addr |-> row[off + D + 1],
     mult |-> row[off + D + 2]]

\* for (value, access) in values_and_accesses: send_block(addr, value, mult)
EvalRow(row) ==
    [j \in 1..NUM_CONST_MEM_ENTRIES_PER_ROW |->
        LET c == CellAt(row, j) IN SendBlockInteraction(c.addr, c.value, c.mult)]

RECURSIVE EvalRows(_)
EvalRows(rows) ==
    IF rows = << >> THEN << >> ELSE EvalRow(Head(rows)) \o EvalRows(Tail(rows))

\* the backend's sum of the multiplicities of the interactions of one key:
\* sends count positively and receives negatively
RECURSIVE MultSum(_, _)
MultSum(inters, key) ==
    IF inters = << >> THEN FZero
    ELSE FAdd(IF Head(inters).values = key THEN Head(inters).multiplicity ELSE FZero,
              MultSum(Tail(inters), key))

InteractionSum(key) == FAdd(MultSum(sends, key), FNeg(MultSum(receives, key)))

Keys == {sends[i].values : i \in 1..Len(sends)}
            \cup {receives[i].values : i \in 1..Len(receives)}

----------------------------------------------------------------------------
(* The harness that drives the memory chip: a program is built, set up
   (preprocessed trace), executed (record) and its trace generated. A panic
   of a call is recorded as the outcome of that call. *)

MemWrite == MemInstr("Write", 1, 1, 2)
MemRead == MemInstr("Read", 1, 1, 2)

RowInstrs == {MemWrite, MemRead, OtherInstr("BaseAlu", 0)}

Shapes == {None, Some(0), Some(1), Some(2)}

InitHarness(sh) ==
    /\ program = << >>
    /\ shape = sh
    /\ pc = "build"
    /\ prep = NoTrace
    /\ record = DefaultRecord
    /\ trace = NoTrace
    /\ output = DefaultRecord
    /\ sends = << >>
    /\ receives = << >>
    /\ calls = << >>
    /\ profile = "none"
    /\ machine = << >>
    /\ counters = << >>
    /\ heights = << >>
    /\ fixedShape = {}

\* the guest before __start runs: both statics are None, no syscall was
\* executed, and the executor is about to run the first instruction
InitGuest(feature) ==
    /\ verify = feature
    /\ pos = "entry"
    /\ hasher = None
    /\ digest = None
    /\ ctx = [next_pc |-> 4, exit_code |-> 0]
    /\ ret = << >>
    /\ halt_args = << >>
    /\ halter = "none"

InitWith(sh) ==
    /\ InitGuest(FALSE)
    /\ InitHarness(sh)

Init == \E sh \in Shapes : InitWith(sh)

Push(instr, maxLen) ==
    /\ pc = "build"
    /\ Len(program) < maxLen
    /\ program' = Append(program, instr)
    /\ UNCHANGED << pc, chipVars, builderVars, machineVars, haltVars >>

PushInstr == \E instr \in RowInstrs : Push(instr, MaxLen)

\* machine.setup(&program): the chip's preprocessed trace
Setup ==
    /\ pc = "build"
    /\ pc' = "setup"
    /\ prep' = GeneratePreprocessedTrace(program, shape)
    /\ UNCHANGED << program, shape, record, trace, output, builderVars, machineVars, haltVars >>

NumMem(instrs) == Cardinality({i \in 1..Len(instrs) : IsMem(instrs[i])})

\* the numbers of variable-memory events a shard's record may carry; the
\* generate_trace test builds its record with two of them
MemVarEvents == {0, 2, 3}

\* runtime.run(): the record of the shard, which counts the Mem instructions
\* executed and carries the program's shape; the variable-memory events are
\* another chip's business
Execute ==
    /\ pc = "setup"
    /\ pc' = "run"
    /\ \E events \in MemVarEvents :
          record' = [mem_const_count |-> NumMem(program), mem_var_events |-> events,
                     shape |-> shape]
    /\ UNCHANGED << program, shape, prep, trace, output, builderVars, machineVars, haltVars >>

\* chip.generate_dependencies(&record, &mut output), called by the machine
\* before the traces are generated
GenerateDependenciesStep ==
    /\ pc = "run"
    /\ pc' = "deps"
    /\ output' = GenerateDependencies(record, output)
    /\ UNCHANGED << program, shape, prep, record, trace, builderVars, machineVars, haltVars >>

\* chip.generate_trace(&record, &mut output), with or without the dependencies
\* step before it (the chip's own test calls it directly)
GenerateTraceStep ==
    /\ pc \in {"run", "deps"}
    /\ pc' = "trace"
    /\ trace' = GenerateTrace(record)
    /\ UNCHANGED << program, shape, prep, record, output, builderVars, machineVars, haltVars >>

Next == PushInstr \/ Setup \/ Execute \/ GenerateDependenciesStep \/ GenerateTraceStep

Spec == Init /\ [][Next]_vars

----------------------------------------------------------------------------
(* Properties of the memory chip's row counts *)

CeilDiv(n, k) == (n + k - 1) \div k

\* the rows the chip needs for n entries packed K per row
NaturalRows(n) == CeilDiv(n, NUM_CONST_MEM_ENTRIES_PER_ROW)

IsPowerOfTwo(h) == \E k \in 0..h : Pow2(k) = h

AtLeastOne(n) == IF n < 1 THEN 1 ELSE n

\* h is the smallest power of two that is at least max(n, 1)
IsNextPowerOfTwo(h, n) ==
    /\ IsPowerOfTwo(h)
    /\ h >= AtLeastOne(n)
    /\ (h = 1 \/ h \div 2 < AtLeastOne(n))

\* C1: for a program and the record of its execution (mem_const_count the
\* number of Mem instructions, the same fixed shape), generate_trace ends as
\* generate_preprocessed_trace does and returns a trace of the same height.
C1_SameRowCount ==
    pc = "trace" =>
        /\ record.mem_const_count = NumMem(program)
        /\ trace.status = prep.status
        /\ Height(trace) = Height(prep)

\* the two traces of a program with an odd number (3) of Mem instructions
C1_Witness ==
    /\ pc = "trace"
    /\ NumMem(program) = 3
    /\ shape = None
    /\ prep.status = "ok"
    /\ trace.status = "ok"
    /\ Height(prep) = 2

HeightAsSpecified(t, n) ==
    t.status = "ok" =>
        /\ IsPowerOfTwo(Height(t))
        /\ shape # None => Height(t) = Pow2(shape[1])
        /\ shape = None => IsNextPowerOfTwo(Height(t), NaturalRows(n))

\* C6: every trace the chip returns has a power-of-two height: 2^fixed with a
\* fixed shape, else the smallest power of two >= the natural row count (at
\* least 1); a program of 2 entries without a fixed shape gives 1 row.
C6_PowerOfTwoHeights ==
    /\ pc \in {"setup", "run", "deps", "trace"} => HeightAsSpecified(prep, NumMem(program))
    /\ pc = "trace" => HeightAsSpecified(trace, record.mem_const_count)
    /\ (pc = "setup" /\ shape = None /\ NumMem(program) = 2) => Height(prep) = 1

\* 5 entries need 3 rows, padded to 4 in both traces
C6_Witness ==
    /\ pc = "trace"
    /\ shape = None
    /\ NumMem(program) = 5
    /\ Height(prep) = 4
    /\ Height(trace) = 4

ExceedsShape(n) == shape # None /\ NaturalRows(n) > Pow2(shape[1])

NeverTruncated(t, n) ==
    /\ ExceedsShape(n) => (t.status = "panic" /\ t.rows = << >>)
    /\ t.status = "ok" => Height(t) >= NaturalRows(n)

\* C7: when the natural row count exceeds 2^fixed, trace generation ends in a
\* panic and returns no trace; a returned trace never has fewer rows than the
\* natural row count.
C7_FixedShapeNeverExceeded ==
    /\ pc \in {"setup", "run", "deps", "trace"} => NeverTruncated(prep, NumMem(program))
    /\ pc = "trace" => NeverTruncated(trace, record.mem_const_count)

\* 3 entries need 2 rows, more than the 2^0 of the fixed shape
C7_Witness ==
    /\ pc = "trace"
    /\ shape = Some(0)
    /\ NumMem(program) = 3
    /\ prep.status = "panic"
    /\ trace.status = "panic"

\* the trace and the records of the runtime step, wherever the harness stands
C12_TraceAndRecords ==
    /\ \A rec \in {record, output, DefaultRecord} : Included(rec)
    /\ pc \in {"deps", "trace"} =>
          /\ output = DefaultRecord
          /\ record.mem_const_count = NumMem(program)
          /\ record.shape = shape
    /\ pc = "trace" =>
          /\ \A events \in MemVarEvents :
                GenerateTrace([record EXCEPT !.mem_var_events = events]) = trace
          /\ trace.status = "ok" =>
                /\ trace.width = 1
                /\ \A i \in 1..Height(trace) : trace.rows[i] = << FZero >>

\* a step of the chip on the records: generate_dependencies or generate_trace
C12_RecordsKept ==
    (pc = "run" \/ pc = "deps") => (record' = record /\ output' = output)

\* C12: the runtime trace depends only on the record's mem_const_count and the
\* fixed shape (records that differ in mem_var_events give the same trace), it
\* has a single column of zeros, generate_dependencies and generate_trace leave
\* the input record and the output record as they were, and included() is true
\* for every record.
C12_TraceFromCountOnly ==
    /\ []C12_TraceAndRecords
    /\ [][C12_RecordsKept]_vars

\* the record of the chip's test (two variable-memory events, no constant
\* memory), through generate_dependencies and generate_trace
C12_Witness ==
    /\ pc = "trace"
    /\ program = << OtherInstr("BaseAlu", 0) >>
    /\ record = [mem_const_count |-> 0, mem_var_events |-> 2, shape |-> Some(1)]
    /\ output = DefaultRecord
    /\ trace = [status |-> "ok", width |-> 1, rows |-> << << 0 >>, << 0 >> >>]

----------------------------------------------------------------------------
(* The harness that proves a program of Mem instructions: setup, then the
   constraints of every preprocessed row *)

\* (mult, addr, val) of the tests: the basic access and its bad multiplicity,
\* bad address and bad value, and accesses of multiplicity zero
Payloads ==
    { << 1, 1, 2 >>, << 999, 1, 2 >>, << 1, 999, 2 >>, << 1, 1, 999 >>,
      << 0, 1, 2 >>, << 0, 1, 999 >> }

InteractInstrs ==
    {MemInstr(kind, p[1], p[2], p[3]) : kind \in {"Write", "Read"}, p \in Payloads}
        \cup {OtherInstr("BaseAlu", 0)}

\* the shapes of the interaction runs: dynamic, or a fixed height of four rows
InteractShapes == {None, Some(2)}

InitInteract == \E sh \in InteractShapes : InitWith(sh)

PushMem == \E instr \in InteractInstrs : Push(instr, MaxInteractLen)

\* the backend evaluates eval on every row of the preprocessed trace
Eval ==
    /\ pc = "setup"
    /\ prep.status = "ok"
    /\ pc' = "eval"
    /\ sends' = sends \o EvalRows(prep.rows)
    /\ UNCHANGED << program, chipVars, receives, calls, machineVars, haltVars >>

NextInteract == PushMem \/ Setup \/ Eval

SpecInteract == InitInteract /\ [][NextInteract]_vars

----------------------------------------------------------------------------
(* Properties of the memory interactions *)

PayloadOf(instr) == << instr.mult, instr.addrs, instr.vals >>

CountOf(kind, payload) ==
    Cardinality({i \in 1..Len(program) :
                    program[i].kind = kind /\ PayloadOf(program[i]) = payload})

\* every Write has a Read of its own with the same address, value and
\* multiplicity, and every Read such a Write
OnlyMatchedPairs ==
    \A i \in 1..Len(program) :
        /\ IsMem(program[i])
        /\ CountOf("Write", PayloadOf(program[i])) = CountOf("Read", PayloadOf(program[i]))

AllSumsZero == \A key \in Keys : InteractionSum(key) = FZero

\* C2: for a program of matched Write/Read pairs only, in any order, the
\* multiplicities of the interactions the chip emits sum to zero for every key.
C2_MatchedPairsBalance ==
    (pc = "eval" /\ OnlyMatchedPairs) => AllSumsZero

\* Scenario A followed by a second matched pair in the other order
C2_Witness ==
    /\ pc = "eval"
    /\ program = << MemInstr("Write", 1, 1, 2), MemInstr("Read", 1, 1, 2),
                    MemInstr("Read", 999, 1, 2), MemInstr("Write", 999, 1, 2) >>
    /\ Len(sends) = 4
    /\ sends[2].multiplicity = BabyBearP - 1
    /\ AllSumsZero

\* the program is a list of pairs: a Write, then its Read
IsPairList ==
    /\ Len(program) % 2 = 0
    /\ \A i \in 1..Len(program) :
          program[i].kind = (IF i % 2 = 1 THEN "Write" ELSE "Read")

PairIndices == {i \in 1..Len(program) : i % 2 = 1}

Mismatched(i) == PayloadOf(program[i + 1]) # PayloadOf(program[i])

BothZero(i) == program[i].mult = FZero /\ program[i + 1].mult = FZero

SomeSumNonZero == \E key \in Keys : InteractionSum(key) # FZero

\* C3 as claimed: a Read that differs from its Write anywhere in the program
\* leaves a key with a non-zero sum, and the chip raised no error.
C3_AnyMismatchFails ==
    (pc \in {"setup", "eval"} /\ IsPairList /\ \E i \in PairIndices : Mismatched(i)) =>
        /\ prep.status = "ok"
        /\ pc = "eval" => SomeSumNonZero

\* C3 as amended: exactly one pair is mismatched and its multiplicities are
\* not both zero.
C3_SingleMismatchFails ==
    (/\ pc \in {"setup", "eval"}
     /\ IsPairList
     /\ Cardinality({i \in PairIndices : Mismatched(i)}) = 1
     /\ \A i \in PairIndices : Mismatched(i) => ~BothZero(i)) =>
        /\ prep.status = "ok"
        /\ pc = "eval" => SomeSumNonZero

\* Scenario C (bad address) after a matched pair
C3_Witness ==
    /\ pc = "eval"
    /\ program = << MemInstr("Write", 1, 1, 2), MemInstr("Read", 1, 1, 2),
                    MemInstr("Write", 1, 1, 2), MemInstr("Read", 1, 999, 2) >>
    /\ prep.status = "ok"
    /\ InteractionSum(<< 1, 2, 0, 0, 0 >>) = 1
    /\ InteractionSum(<< 999, 2, 0, 0, 0 >>) = BabyBearP - 1

\* the (address, value, multiplicity) a Mem instruction stands for: the
\* multiplicity of a Read is the additive inverse modulo the field's prime
ExpectedInteraction(instr) ==
    [values |-> << instr.addrs >> \o instr.vals,
     multiplicity |-> IF instr.kind = "Read"
                      THEN (BabyBearP - instr.mult) % BabyBearP
                      ELSE instr.mult,
     kind |-> "Memory"]

\* C11: the interactions emitted over all rows are the program's Mem
\* instructions, each once and in program order, two per row, with the
\* multiplicity negated for a Read; eval emits one interaction per cell, and
\* every cell no Mem instruction fills has multiplicity zero and adds nothing
\* to the sum of its key.
C11_EmitsTheMemInstructions ==
    pc = "eval" =>
        LET mems == SelectSeq(program, IsMem) IN
        /\ Len(sends) = NUM_CONST_MEM_ENTRIES_PER_ROW * Height(prep)
        /\ Len(sends) >= Len(mems)
        /\ receives = << >>
        /\ \A k \in 1..Len(mems) : sends[k] = ExpectedInteraction(mems[k])
        /\ \A k \in (Len(mems) + 1)..Len(sends) : sends[k].multiplicity = FZero
        /\ \A k \in (Len(mems) + 1)..Len(sends) :
              InteractionSum(sends[k].values) =
                  MultSum(SubSeq(sends, 1, Len(mems)), sends[k].values)

\* three Mem instructions around a BaseAlu under a fixed height of four rows:
\* the fourth slot and the two padding rows are unused
C11_Witness ==
    /\ pc = "eval"
    /\ program = << MemInstr("Write", 1, 1, 2), OtherInstr("BaseAlu", 0),
                    MemInstr("Read", 1, 999, 2), MemInstr("Write", 999, 1, 2) >>
    /\ shape = Some(2)
    /\ Len(sends) = 8
    /\ sends[2] = [values |-> << 999, 2, 0, 0, 0 >>, multiplicity |-> BabyBearP - 1,
                   kind |-> "Memory"]
    /\ \A k \in 4..8 : sends[k].multiplicity = FZero


----------------------------------------------------------------------------
(* RecursionAir: the machines *)

\* MachineAir::name of each variant of RecursionAir
ChipName(chip) ==
    CASE chip = "MemoryConst" -> "MemoryConst"
      [] chip = "MemoryVar" -> "MemoryVar"
      [] chip = "BaseAlu" -> "BaseAlu"
      [] chip = "ExtAlu" -> "ExtAlu"
      [] chip = "Poseidon2Skinny" -> "Poseidon2Skinny"
      [] chip = "Poseidon2Wide" -> "Poseidon2Wide"
      [] chip = "FriFold" -> "FriFold"
      [] chip = "ExpReverseBitsLen" -> "ExpReverseBitsLen"
      [] chip = "PublicValues" -> "PublicValues"
      [] chip = "DummyWide" -> "DummyPadding"

MachineWideWithAllChips ==
    << "MemoryConst", "MemoryVar", "BaseAlu", "ExtAlu", "Poseidon2Wide",
       "FriFold", "ExpReverseBitsLen", "PublicValues" >>

MachineSkinnyWithAllChips ==
    << "MemoryConst", "MemoryVar", "BaseAlu", "ExtAlu", "Poseidon2Skinny",
       "FriFold", "ExpReverseBitsLen", "PublicValues" >>

\* a variant of the compress machine that lists both Poseidon2 chips
CompressMachineBothPoseidon ==
    << "MemoryConst", "MemoryVar", "BaseAlu", "ExtAlu", "Poseidon2Wide",
       "Poseidon2Skinny", "ExpReverseBitsLen", "PublicValues" >>

CompressMachine ==
    << "MemoryConst", "MemoryVar", "BaseAlu", "ExtAlu", "Poseidon2Wide",
       "ExpReverseBitsLen", "PublicValues" >>

ShrinkMachine == CompressMachine

WrapMachine ==
    << "MemoryConst", "MemoryVar", "BaseAlu", "ExtAlu", "Poseidon2Skinny",
       "ExpReverseBitsLen", "PublicValues" >>

Profiles == {"wide", "skinny", "compress", "shrink", "wrap"}

MachineOf(p) ==
    CASE p = "wide" -> MachineWideWithAllChips
      [] p = "skinny" -> MachineSkinnyWithAllChips
      [] p = "compress" -> CompressMachine
      [] p = "shrink" -> ShrinkMachine
      [] p = "wrap" -> WrapMachine

----------------------------------------------------------------------------
(* RecursionAirHeights and RecursionAir::heights *)

DefaultHeights ==
    [mem_const_height |-> 0, mem_var_height |-> 0, base_alu_height |-> 0,
     ext_alu_height |-> 0, poseidon2_wide_height |-> 0, fri_fold_height |-> 0,
     exp_reverse_bits_len_height |-> 0]

\* a variant of add_assign whose Hint arms assign the length instead of adding it
AddAssignHintAssigns(h, rhs) ==
    CASE rhs.op = "BaseAlu" -> [h EXCEPT !.base_alu_height = @ + 1]
      [] rhs.op = "ExtAlu" -> [h EXCEPT !.ext_alu_height = @ + 1]
      [] rhs.op = "Mem" -> [h EXCEPT !.mem_const_height = @ + 1]
      [] rhs.op = "Poseidon2" -> [h EXCEPT !.poseidon2_wide_height = @ + 1]
      [] rhs.op = "ExpReverseBitsLen" -> [h EXCEPT !.exp_reverse_bits_len_height = @ + 1]
      [] rhs.op \in {"Hint", "HintBits"} -> [h EXCEPT !.mem_var_height = rhs.outs]
      [] rhs.op = "HintExt2Felts" -> [h EXCEPT !.mem_var_height = rhs.outs]
      [] rhs.op = "FriFold" -> [h EXCEPT !.fri_fold_height = @ + 1]
      [] rhs.op = "CommitPublicValues" -> h
      [] rhs.op = "Print" -> h

\* a variant of add_assign whose ExtAlu arm counts into the BaseAlu counter
AddAssignExtIntoBase(h, rhs) ==
    CASE rhs.op = "BaseAlu" -> [h EXCEPT !.base_alu_height = @ + 1]
      [] rhs.op = "ExtAlu" -> [h EXCEPT !.base_alu_height = @ + 1]
      [] rhs.op = "Mem" -> [h EXCEPT !.mem_const_height = @ + 1]
      [] rhs.op = "Poseidon2" -> [h EXCEPT !.poseidon2_wide_height = @ + 1]
      [] rhs.op = "ExpReverseBitsLen" -> [h EXCEPT !.exp_reverse_bits_len_height = @ + 1]
      [] rhs.op \in {"Hint", "HintBits"} -> [h EXCEPT !.mem_var_height = @ + rhs.outs]
      [] rhs.op = "HintExt2Felts" -> [h EXCEPT !.mem_var_height = @ + rhs.outs]
      [] rhs.op = "FriFold" -> [h EXCEPT !.fri_fold_height = @ + 1]
      [] rhs.op = "CommitPublicValues" -> h
      [] rhs.op = "Print" -> h

\* add_assign; outs is output_addrs_mults.len()
AddAssign(h, rhs) ==
    CASE rhs.op = "BaseAlu" -> [h EXCEPT !.base_alu_height = @ + 1]
      [] rhs.op = "ExtAlu" -> [h EXCEPT !.ext_alu_height = @ + 1]
      [] rhs.op = "Mem" -> [h EXCEPT !.mem_const_height = @ + 1]
      [] rhs.op = "Poseidon2" -> [h EXCEPT !.poseidon2_wide_height = @ + 1]
      [] rhs.op = "ExpReverseBitsLen" -> [h EXCEPT !.exp_reverse_bits_len_height = @ + 1]
      [] rhs.op \in {"Hint", "HintBits"} -> [h EXCEPT !.mem_var_height = @ + rhs.outs]
      [] rhs.op = "HintExt2Felts" -> [h EXCEPT !.mem_var_height = @ + rhs.outs]
      [] rhs.op = "FriFold" -> [h EXCEPT !.fri_fold_height = @ + 1]
      [] rhs.op = "CommitPublicValues" -> h
      [] rhs.op = "Print" -> h

\* instructions.iter().fold(init, |heights, instruction| heights + instruction)
RECURSIVE Fold(_, _)
Fold(h, instrs) ==
    IF instrs = << >> THEN h ELSE Fold(AddAssign(h, Head(instrs)), Tail(instrs))

\* the (name, height) entries heights() returns for the counters h
HeightEntries(h) ==
    << << ChipName("MemoryConst"), h.mem_const_height >>,
       << ChipName("MemoryVar"), h.mem_var_height >>,
       << ChipName("BaseAlu"), h.base_alu_height >>,
       << ChipName("ExtAlu"), h.ext_alu_height >>,
       << ChipName("Poseidon2Wide"), h.poseidon2_wide_height >>,
       << ChipName("ExpReverseBitsLen"), h.exp_reverse_bits_len_height >>,
       << ChipName("PublicValues"), PUB_VALUES_LOG_HEIGHT >> >>

HeightsOf(instrs) == HeightEntries(Fold(DefaultHeights, instrs))

\* HashMap::from(entries): the pairs of the array, a later pair replacing an
\* earlier one of the same key
HashMapFrom(entries) ==
    {entries[i] : i \in {k \in 1..Len(entries) :
                            \A j \in (k + 1)..Len(entries) : entries[j][1] # entries[k][1]}}

\* a variant of shrink_shape that fixes the skinny Poseidon2 chip
ShrinkShapeSkinny ==
    HashMapFrom(<< << ChipName("MemoryConst"), 16 >>,
                   << ChipName("MemoryVar"), 18 >>,
                   << ChipName("BaseAlu"), 20 >>,
                   << ChipName("ExtAlu"), 22 >>,
                   << ChipName("Poseidon2Skinny"), 16 >>,
                   << ChipName("ExpReverseBitsLen"), 16 >>,
                   << ChipName("PublicValues"), PUB_VALUES_LOG_HEIGHT >> >>)

\* RecursionAir::shrink_shape
ShrinkShape ==
    HashMapFrom(<< << ChipName("MemoryConst"), 16 >>,
                   << ChipName("MemoryVar"), 18 >>,
                   << ChipName("BaseAlu"), 20 >>,
                   << ChipName("ExtAlu"), 22 >>,
                   << ChipName("Poseidon2Wide"), 16 >>,
                   << ChipName("ExpReverseBitsLen"), 16 >>,
                   << ChipName("PublicValues"), PUB_VALUES_LOG_HEIGHT >> >>)

----------------------------------------------------------------------------
(* The harness that builds a program, constructs a machine and computes the
   heights of the program *)

HeightInstrs ==
    {MemWrite, OtherInstr("Hint", 2), OtherInstr("HintBits", 3),
     OtherInstr("HintExt2Felts", 1)}
        \cup {OtherInstr(op, 0) :
                op \in {"BaseAlu", "ExtAlu", "Poseidon2", "ExpReverseBitsLen",
                        "FriFold", "CommitPublicValues", "Print"}}

InitHeights == InitWith(None)

PushAny == \E instr \in HeightInstrs : Push(instr, MaxHeightsLen)

BuildMachine ==
    /\ pc = "build"
    /\ \E p \in Profiles :
          /\ profile' = p
          /\ machine' = MachineOf(p)
    /\ pc' = "machine"
    /\ UNCHANGED << program, chipVars, builderVars, counters, heights, fixedShape,
                    haltVars >>

ComputeHeights ==
    /\ pc = "machine"
    /\ pc' = "heights"
    /\ counters' = Fold(DefaultHeights, program)
    /\ heights' = HeightsOf(program)
    /\ UNCHANGED << program, chipVars, builderVars, profile, machine, fixedShape,
                    haltVars >>

\* the shrink stage asks for its fixed shapes, before or after the heights
ShrinkShapeStep ==
    /\ pc \in {"machine", "heights"}
    /\ profile = "shrink"
    /\ fixedShape = {}
    /\ fixedShape' = ShrinkShape
    /\ UNCHANGED << program, pc, chipVars, builderVars, profile, machine, counters,
                    heights, haltVars >>

NextHeights == PushAny \/ BuildMachine \/ ComputeHeights \/ ShrinkShapeStep

SpecHeights == InitHeights /\ [][NextHeights]_vars

----------------------------------------------------------------------------
(* Properties of the height fold *)

Permute(s, f) == [i \in 1..Len(s) |-> s[f[i]]]

PlusHeights(a, b) == [k \in DOMAIN a |-> a[k] + b[k]]

\* C4: the heights of every permutation of the program are the heights of the
\* program, and folding the program in two parts, one after the other or each
\* from zero and added, gives the counters of folding it whole.
C4_HeightsOrderIndependent ==
    pc = "heights" =>
        /\ \A f \in Permutations(1..Len(program)) :
              /\ HeightsOf(Permute(program, f)) = heights
              /\ Fold(DefaultHeights, Permute(program, f)) = counters
        /\ \A k \in 0..Len(program) :
              LET a == SubSeq(program, 1, k)
                  b == SubSeq(program, k + 1, Len(program))
              IN /\ Fold(Fold(DefaultHeights, a), b) = counters
                 /\ PlusHeights(Fold(DefaultHeights, a), Fold(DefaultHeights, b)) = counters

\* two hints of different lengths around a BaseAlu
C4_Witness ==
    /\ pc = "heights"
    /\ program = << OtherInstr("HintExt2Felts", 1), OtherInstr("BaseAlu", 0),
                    OtherInstr("Hint", 2) >>
    /\ counters.mem_var_height = 3
    /\ counters.base_alu_height = 1

Count(instrs, op) == Cardinality({i \in 1..Len(instrs) : instrs[i].op = op})

RECURSIVE HintOutputs(_)
HintOutputs(instrs) ==
    IF instrs = << >> THEN 0
    ELSE (IF Head(instrs).op \in {"Hint", "HintBits", "HintExt2Felts"}
          THEN Head(instrs).outs ELSE 0) + HintOutputs(Tail(instrs))

\* the heights the instruction counts of a program call for
CountedHeights(instrs) ==
    << << "MemoryConst", Count(instrs, "Mem") >>,
       << "MemoryVar", HintOutputs(instrs) >>,
       << "BaseAlu", Count(instrs, "BaseAlu") >>,
       << "ExtAlu", Count(instrs, "ExtAlu") >>,
       << "Poseidon2Wide", Count(instrs, "Poseidon2") >>,
       << "ExpReverseBitsLen", Count(instrs, "ExpReverseBitsLen") >>,
       << "PublicValues", PUB_VALUES_LOG_HEIGHT >> >>

\* 2 Mem writes, 8 BaseAlu operations, 2 Mem reads
ScenarioD ==
    << MemWrite, MemWrite >> \o [i \in 1..8 |-> OtherInstr("BaseAlu", 0)]
        \o << MemRead, MemRead >>

\* C5: heights() reports for each chip the count of its instructions (the sum
\* of the output addresses for MemoryVar), the FriFold counter counts the
\* FriFold instructions, CommitPublicValues and Print change no counter and
\* PublicValues is the same constant for every program.
C5_HeightsAreCounts ==
    /\ pc = "heights" =>
          /\ heights = CountedHeights(program)
          /\ counters.fri_fold_height = Count(program, "FriFold")
          /\ AddAssign(counters, OtherInstr("CommitPublicValues", 0)) = counters
          /\ AddAssign(counters, OtherInstr("Print", 0)) = counters
    /\ HeightsOf(ScenarioD) =
          << << "MemoryConst", 4 >>, << "MemoryVar", 0 >>, << "BaseAlu", 8 >>,
             << "ExtAlu", 0 >>, << "Poseidon2Wide", 0 >>, << "ExpReverseBitsLen", 0 >>,
             << "PublicValues", PUB_VALUES_LOG_HEIGHT >> >>

\* a Hint of 2 outputs, a HintBits of 3 and a FriFold
C5_Witness ==
    /\ pc = "heights"
    /\ program = << OtherInstr("Hint", 2), OtherInstr("FriFold", 0), OtherInstr("HintBits", 3) >>
    /\ heights[2] = << "MemoryVar", 5 >>
    /\ counters.fri_fold_height = 1

----------------------------------------------------------------------------
(* Properties of the machines *)

ChipSet == {machine[i] : i \in 1..Len(machine)}

Poseidon2Chips == {"Poseidon2Wide", "Poseidon2Skinny"}

\* C9: in the machine each constructor builds no chip name appears twice, there
\* is exactly one Poseidon2 chip (wide for wide-all, compress and shrink, skinny
\* for skinny-all and wrap) and no dummy chip.
C9_UniqueChipNames ==
    pc \in {"machine", "heights"} =>
        /\ \A i, j \in 1..Len(machine) :
              i # j => ChipName(machine[i]) # ChipName(machine[j])
        /\ Cardinality({i \in 1..Len(machine) : machine[i] \in Poseidon2Chips}) = 1
        /\ profile \in {"wide", "compress", "shrink"} => "Poseidon2Wide" \in ChipSet
        /\ profile \in {"skinny", "wrap"} => "Poseidon2Skinny" \in ChipSet
        /\ "DummyWide" \notin ChipSet

C9_Witness ==
    /\ pc = "machine"
    /\ profile = "shrink"
    /\ Len(machine) = 7
    /\ machine[5] = "Poseidon2Wide"

\* the chips that prove an instruction of kind op: the chip whose height the
\* kind's counter is, either Poseidon2 chip for Poseidon2; Print needs none
ChipsProving(op) ==
    CASE op = "Mem" -> {"MemoryConst"}
      [] op \in {"Hint", "HintBits", "HintExt2Felts"} -> {"MemoryVar"}
      [] op = "Poseidon2" -> Poseidon2Chips
      [] op = "CommitPublicValues" -> {"PublicValues"}
      [] op = "Print" -> {}
      [] OTHER -> {op}

MissingChip ==
    \E i \in 1..Len(program) :
        /\ ChipsProving(program[i].op) # {}
        /\ ChipsProving(program[i].op) \cap ChipSet = {}

\* C10: with a machine that has no chip for an instruction kind of the program
\* the run is aborted at construction and no heights are produced.
C10_MissingChipIsFatal ==
    (pc \in {"machine", "heights"} /\ MissingChip) => pc # "heights"

\* the names of the machine's chips, of the fixed shape's keys and of the heights
MachineNames == {ChipName(machine[i]) : i \in 1..Len(machine)}

ShapeKeys == {e[1] : e \in fixedShape}

HeightNames == {heights[i][1] : i \in 1..Len(heights)}

\* C13: the shrink machine has the chips of the compress machine, the keys of
\* shrink_shape() are the names of its chips, one log2 row count each, and
\* heights() has an entry for the same names; the FriFold counter is
\* accumulated and reported for no chip.
C13_ShrinkShapeMatchesMachine ==
    (pc \in {"machine", "heights"} /\ profile = "shrink") =>
        /\ machine = CompressMachine
        /\ fixedShape # {} =>
              /\ ShapeKeys = MachineNames
              /\ Cardinality(fixedShape) = Len(machine)
        /\ pc = "heights" =>
              /\ HeightNames = MachineNames
              /\ Len(heights) = Len(machine)
              /\ ChipName("FriFold") \notin HeightNames
              /\ counters.fri_fold_height = Count(program, "FriFold")

\* the shrink machine with its shape and the heights of a program that has a
\* FriFold instruction
C13_Witness ==
    /\ pc = "heights"
    /\ profile = "shrink"
    /\ fixedShape # {}
    /\ << "Poseidon2Wide", 16 >> \in fixedShape
    /\ << "BaseAlu", 20 >> \in fixedShape
    /\ Len(heights) = 7
    /\ \E i \in 1..Len(program) : program[i].op = "FriFold"
    /\ counters.fri_fold_height = 1

----------------------------------------------------------------------------
(* A chip's eval that calls the Memory helpers of the builder *)

BuilderAddrs == {1, 999}

BuilderVals == {2, 999}

BuilderMults == {1, BabyBearP - 1}

BuilderBlocks ==
    { << 2, 0, 0, 0 >>, << 999, 0, 0, 0 >>, << 0, 0, 0, 2 >>, << 2, 999, 0, 1 >> }

InitBuilder == InitWith(None)

Call(fn, addr, val, mult) == [fn |-> fn, addr |-> addr, val |-> val, mult |-> mult]

Called(c) ==
    /\ Len(calls) < MaxCalls
    /\ calls' = Append(calls, c)
    /\ UNCHANGED << program, pc, chipVars, machineVars, haltVars >>

SendSingle ==
    \E addr \in BuilderAddrs, val \in BuilderVals, mult \in BuilderMults :
        /\ Called(Call("send_single", addr, val, mult))
        /\ sends' = Append(sends, SendSingleInteraction(addr, val, mult))
        /\ UNCHANGED receives

SendBlock ==
    \E addr \in BuilderAddrs, val \in BuilderBlocks, mult \in BuilderMults :
        /\ Called(Call("send_block", addr, val, mult))
        /\ sends' = Append(sends, SendBlockInteraction(addr, val, mult))
        /\ UNCHANGED receives

ReceiveSingle ==
    \E addr \in BuilderAddrs, val \in BuilderVals, mult \in BuilderMults :
        /\ Called(Call("receive_single", addr, val, mult))
        /\ receives' = Append(receives, ReceiveSingleInteraction(addr, val, mult))
        /\ UNCHANGED sends

ReceiveBlock ==
    \E addr \in BuilderAddrs, val \in BuilderBlocks, mult \in BuilderMults :
        /\ Called(Call("receive_block", addr, val, mult))
        /\ receives' = Append(receives, ReceiveBlockInteraction(addr, val, mult))
        /\ UNCHANGED sends

NextBuilder == SendSingle \/ SendBlock \/ ReceiveSingle \/ ReceiveBlock

SpecBuilder == InitBuilder /\ [][NextBuilder]_vars

----------------------------------------------------------------------------
(* Properties of the builder *)

IsSend(c) == c.fn \in {"send_single", "send_block"}

IsReceive(c) == c.fn \in {"receive_single", "receive_block"}

IsSingle(c) == c.fn \in {"send_single", "receive_single"}

\* the block a call is about: a single value is the first limb of a zero block
BlockOfCall(c) == IF IsSingle(c) THEN << c.val, 0, 0, 0 >> ELSE c.val

\* the interaction carries the call's address, then the D limbs, and its multiplicity
Carries(inter, c) ==
    /\ inter.kind = "Memory"
    /\ inter.multiplicity = c.mult
    /\ Len(inter.values) = D + 1
    /\ inter.values[1] = c.addr
    /\ \A i \in 1..D : inter.values[i + 1] = BlockOfCall(c)[i]

\* C8: each helper builds one Memory interaction whose key is the address
\* followed by the D block limbs in order, with the call's multiplicity; a
\* single value is the block (v, 0, ..., 0), so a single send and a block
\* receive of the same address and value have the same key.
C8_MemoryWireContract ==
    LET sendCalls == SelectSeq(calls, IsSend)
        receiveCalls == SelectSeq(calls, IsReceive)
    IN /\ Len(sends) = Len(sendCalls)
       /\ Len(receives) = Len(receiveCalls)
       /\ \A k \in 1..Len(sends) : Carries(sends[k], sendCalls[k])
       /\ \A k \in 1..Len(receives) : Carries(receives[k], receiveCalls[k])
       /\ \A i \in 1..Len(sends), j \in 1..Len(receives) :
             (/\ sendCalls[i].addr = receiveCalls[j].addr
              /\ BlockOfCall(sendCalls[i]) = BlockOfCall(receiveCalls[j]))
                 => sends[i].values = receives[j].values

\* a single send and a block receive of address 1 and value 2
C8_Witness ==
    /\ Len(calls) = 2
    /\ calls[1].fn = "send_single"
    /\ calls[1].addr = 1
    /\ calls[1].val = 2
    /\ calls[2].fn = "receive_block"
    /\ calls[2].addr = 1
    /\ calls[2].val = << 2, 0, 0, 0 >>
    /\ sends = << [values |-> << 1, 2, 0, 0, 0 >>, multiplicity |-> 1, kind |-> "Memory"] >>
    /\ receives = sends

----------------------------------------------------------------------------
(* The guest's entry point __start and the executor's halt syscall *)

MaxMainSteps == 32

POSEIDON_NUM_WORDS == 8

\* Sha256::new()
Sha256New == [state |-> "initial", len |-> 0]

\* exit codes (u32) and second arguments (u32) a halt syscall is called with
ExitCodes == {0, 1, 101, 2147483647}

HaltArgs == {0, 7, 2147483647}

\* a variant of the halt syscall that leaves the exit code as it was
HaltExecuteKeepsCode(context, exit_code, arg2) ==
    [ctx |-> [context EXCEPT !.next_pc = 0], ret |-> None]

\* HaltSyscall::execute(&self, ctx, exit_code, _) -> Option<u32>
HaltExecute(context, exit_code, arg2) ==
    [ctx |-> [context EXCEPT !.next_pc = 0, !.exit_code = exit_code], ret |-> None]

\* the executor runs one more 4-byte instruction of the guest
Advance(context) == [context EXCEPT !.next_pc = @ + 4]

\* PUBLIC_VALUES_HASHER = Some(Sha256::new());
StartInitHasher ==
    /\ pos = "entry"
    /\ pos' = "hasher"
    /\ hasher' = Some(Sha256New)
    /\ ctx' = Advance(ctx)
    /\ UNCHANGED << verify, digest, ret, halt_args, halter >>
    /\ UNCHANGED << program, pc, chipVars, builderVars, machineVars >>

\* #[cfg(feature = "verify")] DEFERRED_PROOFS_DIGEST = Some([BabyBear::zero(); 8]);
StartInitDigest ==
    /\ pos = "hasher"
    /\ pos' = "inited"
    /\ digest' = IF verify THEN Some(Repeat(FZero, POSEIDON_NUM_WORDS)) ELSE digest
    /\ ctx' = IF verify THEN Advance(ctx) ELSE ctx
    /\ UNCHANGED << verify, hasher, ret, halt_args, halter >>
    /\ UNCHANGED << program, pc, chipVars, builderVars, machineVars >>

\* main()
CallMain ==
    /\ pos = "inited"
    /\ pos' = "main"
    /\ ctx' = Advance(ctx)
    /\ UNCHANGED << verify, hasher, digest, ret, halt_args, halter >>
    /\ UNCHANGED << program, pc, chipVars, builderVars, machineVars >>

\* one instruction of the guest's main
MainStep ==
    /\ pos = "main"
    /\ ctx.next_pc < 4 * MaxMainSteps
    /\ ctx' = Advance(ctx)
    /\ UNCHANGED << verify, pos, hasher, digest, ret, halt_args, halter >>
    /\ UNCHANGED << program, pc, chipVars, builderVars, machineVars >>

\* main returns to __start
MainReturns ==
    /\ pos = "main"
    /\ pos' = "returned"
    /\ ctx' = Advance(ctx)
    /\ UNCHANGED << verify, hasher, digest, ret, halt_args, halter >>
    /\ UNCHANGED << program, pc, chipVars, builderVars, machineVars >>

\* the executor's handling of a halt syscall with the two arguments
Halt(exit_code, arg2, caller) ==
    /\ pos' = "halted"
    /\ ctx' = HaltExecute(ctx, exit_code, arg2).ctx
    /\ ret' = Append(ret, HaltExecute(ctx, exit_code, arg2).ret)
    /\ halt_args' = << exit_code, arg2 >>
    /\ halter' = caller
    /\ UNCHANGED << verify, hasher, digest >>
    /\ UNCHANGED << program, pc, chipVars, builderVars, machineVars >>

\* the guest's main halts by itself (an exit or a panic) and never returns
MainHalts ==
    /\ pos = "main"
    /\ \E exit_code \in ExitCodes, arg2 \in HaltArgs : Halt(exit_code, arg2, "guest")

\* syscall_halt(0); the second argument is whatever the register holds
StartHalt ==
    /\ pos = "returned"
    /\ \E arg2 \in HaltArgs : Halt(0, arg2, "start")

InitHalt == \E feature \in BOOLEAN : InitGuest(feature) /\ InitHarness(None)

NextHalt ==
    \/ StartInitHasher
    \/ StartInitDigest
    \/ CallMain
    \/ MainStep
    \/ MainReturns
    \/ MainHalts
    \/ StartHalt

SpecHalt == InitHalt /\ [][NextHalt]_vars

\* __start is straight-line code and the executor runs the next instruction
\* as long as the guest has not halted: the steps of __start itself always
\* happen; main may loop for ever
StartFairness ==
    /\ WF_vars(StartInitHasher)
    /\ WF_vars(StartInitDigest)
    /\ WF_vars(CallMain)
    /\ WF_vars(StartHalt)

SpecHaltFair == InitHalt /\ [][NextHalt]_vars /\ StartFairness

\* what holds of the statics and of the context wherever the guest stands
C14_HaltState ==
    /\ pos \in {"inited", "main"} => hasher = Some(Sha256New)
    /\ pos = "halted" =>
          /\ ctx.next_pc = 0
          /\ ctx.exit_code = halt_args[1]
          /\ ret = << None >>
    /\ halter = "start" => (pos = "halted" /\ halt_args[1] = 0)
    /\ pos # "halted" => (halter = "none" /\ ret = << >> /\ ctx.next_pc # 0)

\* main is entered with the hasher set, and __start halts only from the point
\* where main has returned
C14_Order ==
    /\ (pos # "main" /\ pos' = "main") => hasher # None
    /\ (halter # "start" /\ halter' = "start") => pos = "returned"

\* C14: a guest whose main returns ends by halting with exit code 0; the entry
\* point sets the public-values hasher before it calls main and calls the halt
\* syscall with code 0 only after main has returned; the halt syscall, for
\* every exit code and second argument, sets the next pc to 0, records the
\* code as the exit code and returns no value.
C14_ReturnLeadsToHaltZero ==
    /\ []C14_HaltState
    /\ [][C14_Order]_vars
    /\ (pos = "returned") ~> (pos = "halted" /\ halter = "start" /\ ctx.exit_code = 0)

\* main has returned and __start has halted with code 0
C14_Witness ==
    /\ pos = "halted"
    /\ halter = "start"
    /\ hasher = Some(Sha256New)
    /\ halt_args = << 0, 7 >>
    /\ ctx = [next_pc |-> 0, exit_code |-> 0]
    /\ ret = << None >>

\* main has halted by itself with code 101: the code is recorded
C14_GuestHaltWitness ==
    /\ pos = "halted"
    /\ halter = "guest"
    /\ halt_args = << 101, 2147483647 >>
    /\ ctx = [next_pc |-> 0, exit_code |-> 101]

====
